---- MODULE Spec2Model ----
(***************************************************************************)
(* A model of writedisk: the privileged copier (src/bin/wd_copier.rs), the *)
(* unprivileged orchestrator (src/bin/writedisk.rs) and the two percentage *)
(* functions of the copier.                                                *)
(*                                                                         *)
(*   Spec      the copier process: MountGuard, copy loop, flush and the    *)
(*             estimator thread                                            *)
(*   SpecOrch  the orchestrator process: discovery, selection, invocation  *)
(*   SpecCalc  calc_percent and DirtyInfo::calc_sync_percent applied to    *)
(*             inputs drawn from bounded sets                              *)
(*                                                                         *)
(* Text is modelled as a sequence of one-character strings, so that        *)
(* starts_with, trim, parse and format! are computed and not assumed.      *)
(* File contents are modelled as sequences of extents <<origin, off, len>>:*)
(* len bytes that are bytes off .. off+len-1 of the file `origin` as it    *)
(* was when the run began.  Two contents are byte-equal when their         *)
(* normalised extent lists are equal.                                      *)
(***************************************************************************)
EXTENDS Integers, Sequences, FiniteSets, TLC

VARIABLES
    \* ---- copier (wd_copier.rs) ----
    pc,             \* position of the copier's main thread
    dst_path,       \* opt.dst: a character sequence, or NonUtf8
    mounts,         \* what procfs::mounts() yields: MountsErr or a sequence of records
    mounted,        \* indexes of the mount table that are still mounted
    umount_log,     \* the umount calls made, in order: <<index, ok>>
    src_len,        \* length of the source file
    dst_len,        \* length of the destination device
    dst_data,       \* content of the destination: a sequence of extents
    src_pos,        \* read offset of the source handle
    dst_pos,        \* write offset of the destination handle
    src_size,       \* let src_size
    remaining,      \* let mut remaining
    bytes_written,  \* let mut bytes_written
    chunks,         \* the read_size of every completed iteration, in order
    dirty,          \* the DirtyInfo value (owned by main, then by the estimator)
    dirty_end,      \* the value get_dirty_bytes() returned on line 177
    bar,            \* the progress bar: job title and last percentage
    reported,       \* the estimator has reported a percentage
    stdout,         \* lines printed with println!
    epc,            \* position of the estimator thread
    chan,           \* number of messages queued in the mpsc channel
    sent,           \* number of successful tx.send calls
    rx_alive,       \* the Receiver has not been dropped
    tx_alive,       \* the Sender has not been dropped
    events,         \* order of the phase events of the run
    exit_code,      \* exit status of the copier process, or NoExit
    \* ---- orchestrator (writedisk.rs) ----
    opc,            \* position of the orchestrator
    input_exists,   \* opt.input.exists()
    sys_block,      \* what fs::read_dir("/sys/block") yields
    opt_device_name,\* opt.device_name: None or Some(character sequence)
    discovery,      \* "none", or how UsbBlockDevice::get_all() ended: "ok" or "err"
    devices,        \* the value of `devices` in choose_device
    input,          \* the line read from stdin: None or Some(characters)
    device,         \* the device choose_device returned, or NoDevice
    ostdout,        \* lines the orchestrator printed
    invocations,    \* the destination path of every copier invocation
    status,         \* the copier's exit status as seen by the orchestrator
    oexit,          \* exit status of the orchestrator, or NoExit
    \* ---- the percentage functions ----
    kin,            \* arguments of the current application
    kout            \* results of the current application, or NoResult

cvars == <<pc, dst_path, mounts, mounted, umount_log, src_len, dst_len,
           dst_data, src_pos, dst_pos, src_size, remaining, bytes_written, chunks,
           dirty, dirty_end, bar, reported, stdout, epc, chan, sent, rx_alive,
           tx_alive, events, exit_code>>
ovars == <<opc, input_exists, sys_block, opt_device_name, discovery, devices, input,
           device, ostdout,
           invocations, status, oexit>>
kvars == <<kin, kout>>
vars == <<cvars, ovars, kvars>>

----------------------------------------------------------------------------
(* Bounds of the model *)

\* width, in bits, of the model's unsigned counters (u64 in the program)
WordBits == 8
\* largest span (after_copy - before_copy) SpecCalc applies the functions to
MaxSpan == 20
\* how far below before_copy and above after_copy SpecCalc takes `current`
Margin == 3
\* most entries of /sys/block in one listing
MaxEntries == 2

Modulus == 2 ^ WordBits

----------------------------------------------------------------------------
(* Arithmetic *)

Min(a, b) == IF a < b THEN a ELSE b

\* u64::saturating_sub
SaturatingSub(a, b) == IF a >= b THEN a - b ELSE 0

\* `a - b` on unsigned words in a build without overflow checks
WrappingSub(a, b) == (a - b + Modulus) % Modulus

\* (current as f64) / (max as f64) * 100_f64, then `as i32`: the cast truncates
\* toward zero.  Exact integer arithmetic gives the same value as the f64
\* computation for every argument pair this model applies it to.
ClampHigh(percent) == IF percent > 100 THEN 100 ELSE percent

calc_percent_noclamp(current, max) ==
    IF max = 0 THEN 0 ELSE (current * 100) \div max

calc_percent(current, max) ==
    IF max = 0 THEN 0 ELSE ClampHigh((current * 100) \div max)

calc_sync_percent_wrapping(d) ==
    100 - calc_percent(WrappingSub(d.current, d.before_copy),
                       SaturatingSub(d.after_copy, d.before_copy))

\* DirtyInfo::calc_sync_percent
calc_sync_percent(d) ==
    100 - calc_percent(SaturatingSub(d.current, d.before_copy),
                       SaturatingSub(d.after_copy, d.before_copy))

----------------------------------------------------------------------------
(* SpecCalc: the two percentage functions applied to bounded inputs *)

NoResult == [fn |-> "none"]
Idle == [fn |-> "idle"]

\* values `current` takes around the interval lo .. hi, and two far outside it
Around(lo, hi) ==
    {c \in (lo - Margin) .. (hi + Margin) : c >= 0} \cup {0, 10 * MaxSpan}

\* argument lists for calc_percent: (current, max) and (other, max)
CalcInputs ==
    [fn : {"calc_percent"}, current : Around(0, MaxSpan), other : Around(0, MaxSpan),
     max : 0 .. MaxSpan]

\* DirtyInfo values, each with a second reading `other` of the dirty counter
SyncInputs ==
    UNION {
        [fn : {"calc_sync_percent"},
         dirty : [before_copy : {b}, after_copy : {b + d},
                  current : Around(b, b + d)],
         other : Around(b, b + d)]
        : <<b, d>> \in {0, 5 * MaxSpan} \X (0 .. MaxSpan) }

CalcInit ==
    /\ kin \in CalcInputs \cup SyncInputs
    /\ kout = NoResult

CalcIdle ==
    /\ kin = Idle
    /\ kout = NoResult

\* calc_percent(current, max) and calc_percent(other, max)
ApplyCalcPercent ==
    /\ kout = NoResult
    /\ kin.fn = "calc_percent"
    /\ kout' = [fn |-> kin.fn,
                r |-> calc_percent(kin.current, kin.max),
                r_other |-> calc_percent(kin.other, kin.max)]
    /\ UNCHANGED <<kin, cvars, ovars>>

\* dirty.calc_sync_percent(), and again after `dirty.current = other`
ApplyCalcSyncPercent ==
    /\ kout = NoResult
    /\ kin.fn = "calc_sync_percent"
    /\ kout' = [fn |-> kin.fn,
                r |-> calc_sync_percent(kin.dirty),
                r_other |-> calc_sync_percent([kin.dirty EXCEPT !.current = kin.other])]
    /\ UNCHANGED <<kin, cvars, ovars>>

----------------------------------------------------------------------------
(* Text *)

\* str::starts_with
StartsWith(s, prefix) ==
    /\ Len(prefix) <= Len(s)
    /\ SubSeq(s, 1, Len(prefix)) = prefix

Dev(name) == <<"/", "d", "e", "v", "/">> \o name

----------------------------------------------------------------------------
(* File contents as extents *)

Extent(origin, off, len) == <<origin, off, len>>

TotalLen(data) ==
    LET RECURSIVE Sum(_)
        Sum(i) == IF i = 0 THEN 0 ELSE Sum(i - 1) + data[i][3]
    IN Sum(Len(data))

\* the same bytes with no empty extent and no two extents that continue each other
RECURSIVE Norm(_)
Norm(data) ==
    IF data = <<>> THEN <<>>
    ELSE LET e == Head(data)
             rest == Norm(Tail(data))
         IN IF e[3] = 0 THEN rest
            ELSE IF rest # <<>> /\ rest[1][1] = e[1] /\ rest[1][2] = e[2] + e[3]
                 THEN <<Extent(e[1], e[2], e[3] + rest[1][3])>> \o Tail(rest)
                 ELSE <<e>> \o rest

\* the first n bytes of data
RECURSIVE Take(_, _)
Take(data, n) ==
    IF n <= 0 \/ data = <<>> THEN <<>>
    ELSE LET e == Head(data)
         IN IF e[3] <= n THEN <<e>> \o Take(Tail(data), n - e[3])
            ELSE <<Extent(e[1], e[2], n)>>

\* data without its first n bytes
RECURSIVE Drop(_, _)
Drop(data, n) ==
    IF data = <<>> THEN <<>>
    ELSE IF n <= 0 THEN data
    ELSE LET e == Head(data)
         IN IF e[3] <= n THEN Drop(Tail(data), n - e[3])
            ELSE <<Extent(e[1], e[2] + n, e[3] - n)>> \o Tail(data)

\* bytes from .. to-1 of data
Slice(data, from, to) == Norm(Take(Drop(data, from), to - from))

\* data after buf was written at offset pos (pos + TotalLen(buf) <= TotalLen(data))
WriteAt(data, pos, buf) ==
    Norm(Take(data, pos) \o buf \o Drop(data, pos + TotalLen(buf)))

\* the source file: src_len bytes, never written by the copier
SrcData(len) == Norm(<<Extent("src", 0, len)>>)

\* the destination before the run
DstData0(len) == Norm(<<Extent("dst", 0, len)>>)

----------------------------------------------------------------------------
(* The copier: inputs *)

\* let chunk_size: u64 = 1024 * 1024
chunk_size == 1024 * 1024

\* lengths of the source file: empty, the 37 bytes of the end-to-end test,
\* around one chunk, and more than two chunks with a short last one
SrcSizes == {0, 37, chunk_size - 1, chunk_size, chunk_size + 1, 2 * chunk_size + 37}

\* lengths of the destination: the 10 MiB device of the end-to-end test and
\* one that is too small for most sources
DstSizes == {37, 10 * 1024 * 1024}

\* values /proc/meminfo reports as Dirty (get_dirty_bytes yields 0 on error)
DirtyValues == {0, 100, 105, 120, 200}

\* opt.dst
DstPaths ==
    {[utf8 |-> TRUE, chars |-> Dev(<<"s", "d", "b">>)],
     [utf8 |-> TRUE, chars |-> Dev(<<"s", "d", "c">>)],
     [utf8 |-> FALSE, chars |-> <<>>]}

MountRecord(spec, file) == [fs_spec |-> spec, fs_file |-> file]
RecSda1 == MountRecord(Dev(<<"s", "d", "a", "1">>), <<"/">>)
RecSdb1 == MountRecord(Dev(<<"s", "d", "b", "1">>), <<"/", "a">>)
RecSdb2 == MountRecord(Dev(<<"s", "d", "b", "2">>), <<"/", "b">>)
RecSdc == MountRecord(Dev(<<"s", "d", "c">>), <<"/", "c">>)
RecProc == MountRecord(<<"p", "r", "o", "c">>, <<"/", "p">>)

\* what procfs::mounts() can yield
MountResults ==
    {[ok |-> FALSE, table |-> <<>>],
     [ok |-> TRUE, table |-> <<>>],
     [ok |-> TRUE, table |-> <<RecProc, RecSda1>>],
     [ok |-> TRUE, table |-> <<RecSdb1, RecSda1, RecSdb2>>],
     [ok |-> TRUE, table |-> <<RecProc, RecSdc, RecSdb1>>]}

EstRunning == {"start", "poll", "recv"}

CopierInit ==
    /\ pc = "unmount"
    /\ dst_path \in DstPaths
    /\ mounts \in MountResults
    /\ mounted = DOMAIN mounts.table
    /\ umount_log = <<>>
    /\ src_len \in SrcSizes
    /\ dst_len \in DstSizes
    /\ dst_data = DstData0(dst_len)
    /\ src_pos = 0
    /\ dst_pos = 0
    /\ src_size = 0
    /\ remaining = 0
    /\ bytes_written = 0
    /\ chunks = <<>>
    /\ dirty = [before_copy |-> 0, after_copy |-> 0, current |-> 0]
    /\ dirty_end = 0
    /\ bar = [title |-> "", percent |-> 0]
    /\ reported = FALSE
    /\ stdout = <<>>
    /\ epc = "none"
    /\ chan = 0
    /\ sent = 0
    /\ rx_alive = FALSE
    /\ tx_alive = FALSE
    /\ events = <<>>
    /\ exit_code = <<>>

CopierIdle ==
    /\ pc = "idle"
    /\ dst_path = [utf8 |-> FALSE, chars |-> <<>>]
    /\ mounts = [ok |-> FALSE, table |-> <<>>]
    /\ mounted = {}
    /\ umount_log = <<>>
    /\ src_len = 0
    /\ dst_len = 0
    /\ dst_data = <<>>
    /\ src_pos = 0
    /\ dst_pos = 0
    /\ src_size = 0
    /\ remaining = 0
    /\ bytes_written = 0
    /\ chunks = <<>>
    /\ dirty = [before_copy |-> 0, after_copy |-> 0, current |-> 0]
    /\ dirty_end = 0
    /\ bar = [title |-> "", percent |-> 0]
    /\ reported = FALSE
    /\ stdout = <<>>
    /\ epc = "none"
    /\ chan = 0
    /\ sent = 0
    /\ rx_alive = FALSE
    /\ tx_alive = FALSE
    /\ events = <<>>
    /\ exit_code = <<>>

\* what no step of the copier changes: its inputs and the other processes
world == <<dst_path, mounts, src_len, dst_len, ovars, kvars>>
guard == <<mounted, umount_log>>
handles == <<dst_data, src_pos, dst_pos>>
loop == <<src_size, remaining, bytes_written, chunks>>
channel == <<chan, sent, rx_alive, tx_alive>>

\* The process ends: every thread stops and the handles are dropped.
\* 101 is the exit status of a Rust process whose main thread panicked.
ProcessEnds(code) ==
    /\ exit_code' = <<code>>
    /\ epc' = IF epc \in EstRunning THEN "killed" ELSE epc
    /\ rx_alive' = FALSE
    /\ tx_alive' = FALSE

Panic ==
    /\ pc' = "panicked"
    /\ ProcessEnds(101)

----------------------------------------------------------------------------
(* The copier: MountGuard *)

Indexes(table) == [i \in 1 .. Len(table) |-> i]

mounted_parts_exact(table, device_name) ==
    SelectSeq(Indexes(table), LAMBDA i : table[i].fs_spec = device_name)

\* mounts.into_iter().filter(|x| x.fs_spec.starts_with(device_name)).collect(),
\* as the indexes of the records kept, in table order
mounted_parts(table, device_name) ==
    SelectSeq(Indexes(table), LAMBDA i : StartsWith(table[i].fs_spec, device_name))

\* device.to_str().expect(..) panics
UnmountNonUtf8 ==
    /\ pc = "unmount"
    /\ ~dst_path.utf8
    /\ Panic
    /\ UNCHANGED <<world, guard, handles, loop, dirty, dirty_end, bar, reported, stdout,
                   chan, sent, events>>

\* procfs::mounts() fails: "failed to get mounts", return
UnmountNoTable ==
    /\ pc = "unmount"
    /\ dst_path.utf8
    /\ ~mounts.ok
    /\ pc' = "sample_before"
    /\ UNCHANGED <<world, guard, handles, loop, dirty, dirty_end, bar, reported, stdout,
                   epc, channel, events, exit_code>>

\* one umount(mount_point) for every record kept, each succeeding or failing
UnmountMatching ==
    /\ pc = "unmount"
    /\ dst_path.utf8
    /\ mounts.ok
    /\ LET parts == mounted_parts(mounts.table, dst_path.chars)
       IN \E res \in [1 .. Len(parts) -> BOOLEAN] :
            LET done == {parts[k] : k \in {j \in 1 .. Len(parts) : res[j]}}
            IN /\ umount_log' = [k \in 1 .. Len(parts) |-> <<parts[k], res[k]>>]
               /\ mounted' = mounted \ done
               /\ stdout' = stdout \o [k \in 1 .. Cardinality(done) |-> "unmounted"]
    /\ pc' = "sample_before"
    /\ UNCHANGED <<world, handles, loop, dirty, dirty_end, bar, reported,
                   epc, channel, events, exit_code>>

\* fn unmount_all_partitions, called on line 127
unmount_all_partitions ==
    \/ UnmountNonUtf8
    \/ UnmountNoTable
    \/ UnmountMatching

----------------------------------------------------------------------------
(* The copier: opening the files *)

\* let mut dirty = DirtyInfo { before_copy: get_dirty_bytes(), after_copy: 0, current: 0 }
SampleBefore ==
    /\ pc = "sample_before"
    /\ \E v \in DirtyValues :
         dirty' = [before_copy |-> v, after_copy |-> 0, current |-> 0]
    /\ pc' = "open_src"
    /\ UNCHANGED <<world, guard, handles, loop, dirty_end, bar, reported, stdout,
                   epc, channel, events, exit_code>>

\* fs::File::open(opt.src).unwrap(); src.metadata().unwrap().len()
OpenSrc ==
    /\ pc = "open_src"
    /\ src_size' = src_len
    /\ pc' = "open_dst"
    /\ UNCHANGED <<world, guard, handles, remaining, bytes_written, chunks, dirty,
                   dirty_end, bar, reported, stdout, epc, channel, events, exit_code>>

\* either unwrap panics
OpenSrcFails ==
    /\ pc = "open_src"
    /\ Panic
    /\ events' = Append(events, "open_src_err")
    /\ UNCHANGED <<world, guard, handles, loop, dirty, dirty_end, bar, reported, stdout,
                   chan, sent>>

\* the destination opens for writing; lines 151-157 set up the bar and the counters
OpenDst ==
    /\ pc = "open_dst"
    /\ bar' = [title |-> "copying... (1/2)", percent |-> 0]
    /\ remaining' = src_size
    /\ bytes_written' = 0
    /\ pc' = "loop"
    /\ UNCHANGED <<world, guard, handles, src_size, chunks, dirty, dirty_end, reported,
                   stdout, epc, channel, events, exit_code>>

\* "An error occurred while opening ..."; process::exit(1)
OpenDstFails ==
    /\ pc = "open_dst"
    /\ pc' = "exited"
    /\ ProcessEnds(1)
    /\ events' = Append(events, "open_dst_err")
    /\ UNCHANGED <<world, guard, handles, loop, dirty, dirty_end, bar, reported, stdout,
                   chan, sent>>

----------------------------------------------------------------------------
(* The copier: the copy loop *)

ReadSizeWhole(rem) == rem

\* let read_size = if chunk_size > remaining { remaining } else { chunk_size }
ReadSize(rem) == IF chunk_size > rem THEN rem ELSE chunk_size

AdvanceFullChunk(count, read_size) == count + chunk_size

\* bytes_written += read_size
Advance(count, read_size) == count + read_size

\* while remaining > 0
LoopCond(rem) == rem > 0

\* src.read_exact(&mut buf) with buf.len() = read_size: the bytes read
ReadExact(read_size) == Slice(SrcData(src_len), src_pos, src_pos + read_size)

\* read_exact succeeds only if read_size bytes are left in the source
CanRead(read_size) == src_pos + read_size <= src_len

\* write_all succeeds only if read_size bytes fit on the device
CanWrite(read_size) == dst_pos + read_size <= dst_len

\* one iteration of the loop, lines 159-173, with no I/O error
CopyChunk ==
    /\ pc = "loop"
    /\ LoopCond(remaining)
    /\ LET read_size == ReadSize(remaining)
       IN /\ CanRead(read_size)
          /\ CanWrite(read_size)
          /\ bar' = [bar EXCEPT !.percent = calc_percent(bytes_written, src_size)]
          /\ dst_data' = WriteAt(dst_data, dst_pos, ReadExact(read_size))
          /\ src_pos' = src_pos + read_size
          /\ dst_pos' = dst_pos + read_size
          /\ remaining' = remaining - read_size
          /\ bytes_written' = Advance(bytes_written, read_size)
          /\ chunks' = Append(chunks, read_size)
    /\ UNCHANGED <<pc, world, guard, src_size, dirty, dirty_end, reported, stdout,
                   epc, channel, events, exit_code>>

\* src.read_exact(&mut buf).unwrap() panics: an I/O error or a short read
CopyReadFails ==
    /\ pc = "loop"
    /\ LoopCond(remaining)
    /\ bar' = [bar EXCEPT !.percent = calc_percent(bytes_written, src_size)]
    /\ Panic
    /\ events' = Append(events, "read_err")
    /\ UNCHANGED <<world, guard, handles, loop, dirty, dirty_end, reported, stdout,
                   chan, sent>>

\* dst.write_all(&buf).unwrap() panics after writing none or a part of the chunk
CopyWriteFails ==
    /\ pc = "loop"
    /\ LoopCond(remaining)
    /\ LET read_size == ReadSize(remaining)
           room == dst_len - dst_pos
       IN /\ CanRead(read_size)
          /\ \E k \in {0, Min(read_size \div 2, room)} :
               /\ dst_data' = WriteAt(dst_data, dst_pos, Slice(ReadExact(read_size), 0, k))
               /\ dst_pos' = dst_pos + k
          /\ src_pos' = src_pos + read_size
    /\ bar' = [bar EXCEPT !.percent = calc_percent(bytes_written, src_size)]
    /\ Panic
    /\ events' = Append(events, "write_err")
    /\ UNCHANGED <<world, guard, loop, dirty, dirty_end, reported, stdout, chan, sent>>

\* the loop condition is false
LoopExit ==
    /\ pc = "loop"
    /\ ~LoopCond(remaining)
    /\ pc' = "channel"
    /\ events' = Append(events, "copy_done")
    /\ UNCHANGED <<world, guard, handles, loop, dirty, dirty_end, bar, reported, stdout,
                   epc, channel, exit_code>>

----------------------------------------------------------------------------
(* The copier: after the loop *)

\* get_dirty_bytes() - dirty.before_copy, when the subtraction does not panic
AfterCopy(end, before) == WrappingSub(end, before)

\* let (tx, rx) = mpsc::channel(); dirty.after_copy = get_dirty_bytes() - dirty.before_copy
SampleAfterCopy ==
    /\ pc = "channel"
    /\ \E v \in DirtyValues :
         /\ dirty_end' = v
         /\ dirty' = [dirty EXCEPT !.after_copy = AfterCopy(v, dirty.before_copy)]
    /\ rx_alive' = TRUE
    /\ tx_alive' = TRUE
    /\ pc' = "branch"
    /\ events' = Append(events, "sampled")
    /\ UNCHANGED <<world, guard, handles, loop, bar, reported, stdout, epc, chan, sent,
                   exit_code>>

\* the same subtraction in a build with overflow checks, when the counter fell
\* below before_copy: "attempt to subtract with overflow"
SampleAfterCopyPanics ==
    /\ pc = "channel"
    /\ \E v \in DirtyValues :
         /\ v < dirty.before_copy
         /\ dirty_end' = v
    /\ Panic
    /\ events' = Append(events, "overflow")
    /\ UNCHANGED <<world, guard, handles, loop, dirty, bar, reported, stdout, chan, sent>>

DegenerateDropsRx ==
    /\ pc = "branch"
    /\ dirty.after_copy = 0
    /\ stdout' = Append(stdout, "syncing... (2/2)")
    /\ rx_alive' = FALSE
    /\ pc' = "sync"
    /\ UNCHANGED <<world, guard, handles, loop, dirty, dirty_end, bar, reported,
                   epc, chan, sent, tx_alive, events, exit_code>>

\* if dirty.after_copy == 0 { println!("syncing... (2/2)") }
Degenerate ==
    /\ pc = "branch"
    /\ dirty.after_copy = 0
    /\ stdout' = Append(stdout, "syncing... (2/2)")
    /\ pc' = "sync"
    /\ UNCHANGED <<world, guard, handles, loop, dirty, dirty_end, bar, reported,
                   epc, channel, events, exit_code>>

\* else { thread::spawn(move || sync_progress_bar(&rx, progress_bar, dirty)) }
SpawnEstimator ==
    /\ pc = "branch"
    /\ dirty.after_copy # 0
    /\ epc' = "start"
    /\ pc' = "sync"
    /\ events' = Append(events, "spawned")
    /\ UNCHANGED <<world, guard, handles, loop, dirty, dirty_end, bar, reported, stdout,
                   channel, exit_code>>

\* dst.sync_data() is called and blocks
SyncBegin ==
    /\ pc = "sync"
    /\ pc' = "syncing"
    /\ events' = Append(events, "flush_begin")
    /\ UNCHANGED <<world, guard, handles, loop, dirty, dirty_end, bar, reported, stdout,
                   epc, channel, exit_code>>

\* dst.sync_data() returns Ok
SyncReturns ==
    /\ pc = "syncing"
    /\ pc' = "send"
    /\ events' = Append(events, "flush_ok")
    /\ UNCHANGED <<world, guard, handles, loop, dirty, dirty_end, bar, reported, stdout,
                   epc, channel, exit_code>>

SyncFailsIgnored ==
    /\ pc = "syncing"
    /\ pc' = "send"
    /\ events' = Append(events, "flush_err")
    /\ UNCHANGED <<world, guard, handles, loop, dirty, dirty_end, bar, reported, stdout,
                   epc, channel, exit_code>>

\* dst.sync_data().unwrap() panics
SyncFails ==
    /\ pc = "syncing"
    /\ Panic
    /\ events' = Append(events, "flush_err")
    /\ UNCHANGED <<world, guard, handles, loop, dirty, dirty_end, bar, reported, stdout,
                   chan, sent>>

\* tx.send(()).unwrap(): send fails only if the Receiver was dropped
Send ==
    /\ pc = "send"
    /\ IF rx_alive
       THEN /\ chan' = chan + 1
            /\ sent' = sent + 1
            /\ pc' = "print"
            /\ events' = Append(events, "sent")
            /\ UNCHANGED <<epc, rx_alive, tx_alive, exit_code>>
       ELSE /\ Panic
            /\ events' = Append(events, "send_err")
            /\ UNCHANGED <<chan, sent>>
    /\ UNCHANGED <<world, guard, handles, loop, dirty, dirty_end, bar, reported, stdout>>

\* println!("finished")
PrintFinished ==
    /\ pc = "print"
    /\ stdout' = Append(stdout, "finished")
    /\ pc' = "return"
    /\ events' = Append(events, "finished")
    /\ UNCHANGED <<world, guard, handles, loop, dirty, dirty_end, bar, reported,
                   epc, channel, exit_code>>

\* main returns: tx is dropped, and rx too unless it was moved to the estimator
MainReturns ==
    /\ pc = "return"
    /\ tx_alive' = FALSE
    /\ rx_alive' = IF epc = "none" THEN FALSE ELSE rx_alive
    /\ pc' = "returned"
    /\ UNCHANGED <<world, guard, handles, loop, dirty, dirty_end, bar, reported, stdout,
                   epc, chan, sent, events, exit_code>>

\* the runtime ends the process with status 0 once main has returned
ProcessExits ==
    /\ pc = "returned"
    /\ pc' = "done"
    /\ ProcessEnds(0)
    /\ UNCHANGED <<world, guard, handles, loop, dirty, dirty_end, bar, reported, stdout,
                   chan, sent, events>>

----------------------------------------------------------------------------
(* The copier: the estimator thread, fn sync_progress_bar *)

\* progress_bar.set_job_title("syncing... (2/2)")
EstStart ==
    /\ epc = "start"
    /\ bar' = [bar EXCEPT !.title = "syncing... (2/2)"]
    /\ epc' = "poll"
    /\ UNCHANGED <<pc, world, guard, handles, loop, dirty, dirty_end, reported, stdout,
                   channel, events, exit_code>>

\* dirty.current = get_dirty_bytes(); progress_bar.reach_percent(dirty.calc_sync_percent())
EstPoll ==
    /\ epc = "poll"
    /\ \E v \in DirtyValues :
         /\ dirty' = [dirty EXCEPT !.current = v]
         /\ bar' = [bar EXCEPT !.percent = calc_sync_percent(dirty')]
    /\ reported' = TRUE
    /\ epc' = "recv"
    /\ UNCHANGED <<pc, world, guard, handles, loop, dirty_end, stdout, channel, events,
                   exit_code>>

\* rx.try_recv(): a queued message, else Disconnected if the Sender was
\* dropped, else Empty
try_recv(queued, sender_alive) ==
    IF queued > 0 THEN "Ok" ELSE IF ~sender_alive THEN "Disconnected" ELSE "Empty"

StopsOnAnything(result) == TRUE

\* matches!(rx.try_recv(), Ok(()) | Err(mpsc::TryRecvError::Disconnected))
Stops(result) == result \in {"Ok", "Disconnected"}

\* thread::sleep(500 ms); then rx.try_recv(): Ok(()) or Disconnected returns,
\* Empty goes round the loop
EstRecv ==
    /\ epc = "recv"
    /\ LET result == try_recv(chan, tx_alive)
       IN /\ chan' = IF result = "Ok" THEN chan - 1 ELSE chan
          /\ IF Stops(result)
             THEN /\ epc' = "returned"
                  /\ rx_alive' = FALSE
             ELSE /\ epc' = "poll"
                  /\ UNCHANGED rx_alive
    /\ UNCHANGED <<pc, world, guard, handles, loop, dirty, dirty_end, bar, reported,
                   stdout, sent, tx_alive, events, exit_code>>

----------------------------------------------------------------------------
(* The orchestrator and the percentage functions do not run in Spec *)

OrchIdle ==
    /\ opc = "idle"
    /\ input_exists = FALSE
    /\ sys_block = [ok |-> FALSE, entries |-> <<>>]
    /\ opt_device_name = [some |-> FALSE, chars |-> <<>>]
    /\ discovery = "none"
    /\ devices = <<>>
    /\ input = [some |-> FALSE, chars |-> <<>>]
    /\ device = [some |-> FALSE]
    /\ ostdout = <<>>
    /\ invocations = <<>>
    /\ status = <<>>
    /\ oexit = <<>>

Init ==
    /\ CopierInit
    /\ OrchIdle
    /\ CalcIdle

Next ==
    \/ unmount_all_partitions
    \/ SampleBefore
    \/ OpenSrc
    \/ OpenSrcFails
    \/ OpenDst
    \/ OpenDstFails
    \/ CopyChunk
    \/ CopyReadFails
    \/ CopyWriteFails
    \/ LoopExit
    \/ SampleAfterCopy
    \/ SampleAfterCopyPanics
    \/ Degenerate
    \/ SpawnEstimator
    \/ SyncBegin
    \/ SyncReturns
    \/ SyncFails
    \/ Send
    \/ PrintFinished
    \/ MainReturns
    \/ ProcessExits
    \/ EstStart
    \/ EstPoll
    \/ EstRecv


Spec == Init /\ [][Next]_vars

\* the steps of the main thread once sync_data has returned
AfterFlush ==
    \/ Send
    \/ PrintFinished
    \/ MainReturns
    \/ ProcessExits

\* the steps of the estimator thread
Estimator ==
    \/ EstStart
    \/ EstPoll
    \/ EstRecv

\* Spec with both threads scheduled: neither stays runnable for ever without
\* taking a step
SpecLive == Spec /\ WF_vars(AfterFlush) /\ WF_vars(Estimator)

InitCalc ==
    /\ CalcInit
    /\ CopierIdle
    /\ OrchIdle

NextCalc ==
    \/ ApplyCalcPercent
    \/ ApplyCalcSyncPercent

SpecCalc == InitCalc /\ [][NextCalc]_vars

----------------------------------------------------------------------------
(* Properties of the copier, checked under Spec *)

Has(e) == \E i \in DOMAIN events : events[i] = e

\* position of the first e in events
Pos(e) == CHOOSE i \in DOMAIN events : events[i] = e /\ \A j \in 1 .. i - 1 : events[j] # e

\* if b happened, a happened before it
Precedes(a, b) == Has(b) => (Has(a) /\ Pos(a) < Pos(b))

Aborted == pc \in {"panicked", "exited"}

SumOf(seq, n) ==
    LET RECURSIVE Sum(_)
        Sum(i) == IF i = 0 THEN 0 ELSE Sum(i - 1) + seq[i]
    IN Sum(n)

\* C1: once the copy loop has completed, the first src_len bytes of the
\* destination are the source's bytes, every later byte of the destination is
\* the byte that was there before the run, and the length of the destination
\* is unchanged; and every chunk copied so far had the length
\* min(chunk_size, src_len - bytes copied before it).
C1_CopyIsExact ==
    /\ \A i \in DOMAIN chunks :
         chunks[i] = Min(1024 * 1024, src_len - SumOf(chunks, i - 1))
    /\ Has("copy_done") =>
         /\ src_len <= dst_len
         /\ Slice(dst_data, 0, src_len) = SrcData(src_len)
         /\ Slice(dst_data, src_len, dst_len) = Slice(DstData0(dst_len), src_len, dst_len)
         /\ TotalLen(dst_data) = dst_len
         /\ SumOf(chunks, Len(chunks)) = src_len

\* a run that ended with status 0 after copying two full chunks and a last
\* chunk of 37 bytes onto the 10 MiB device
C1_Witness ==
    /\ pc = "done"
    /\ exit_code = <<0>>
    /\ src_len = 2 * 1024 * 1024 + 37
    /\ dst_len = 10 * 1024 * 1024
    /\ chunks = <<1024 * 1024, 1024 * 1024, 37>>
    /\ dst_data = <<Extent("src", 0, src_len), Extent("dst", src_len, dst_len - src_len)>>

\* the records of the mount table whose fs_spec has the device path as a prefix
Matching ==
    {i \in DOMAIN mounts.table : StartsWith(mounts.table[i].fs_spec, dst_path.chars)}

Attempted == {umount_log[k][1] : k \in DOMAIN umount_log}

\* C2: once unmount_all_partitions has run for a device path, umount was
\* attempted for exactly the records whose fs_spec starts with the path, once
\* each, whatever each attempt returned; only records whose attempt succeeded
\* are no longer mounted; nothing was attempted if the table could not be
\* read; and the process never ends in unmount_all_partitions (if it has
\* ended, a later step ended it).
C2_MountGuard ==
    (pc # "unmount" /\ dst_path.utf8) =>
        /\ Attempted = (IF mounts.ok THEN Matching ELSE {})
        /\ Len(umount_log) = Cardinality(Attempted)
        /\ \A i \in DOMAIN mounts.table :
             i \notin mounted <=> \E k \in DOMAIN umount_log : umount_log[k] = <<i, TRUE>>
        /\ exit_code # <<>> => events # <<>>

\* /dev/sdb with /dev/sdb1, /dev/sda1 and /dev/sdb2 mounted: the unmount of
\* sdb1 failed, sdb2 was unmounted all the same, sda1 is untouched and the
\* copy has written its first chunk
C2_Witness ==
    /\ dst_path.chars = Dev(<<"s", "d", "b">>)
    /\ mounts.table = <<RecSdb1, RecSda1, RecSdb2>>
    /\ umount_log = <<<<1, FALSE>>, <<3, TRUE>>>>
    /\ mounted = {1, 2}
    /\ pc = "loop"
    /\ bytes_written > 0

\* C7: 0 <= bytes_written <= total_bytes in every state; while the loop runs
\* it goes on exactly as long as bytes_written < total_bytes, and after it
\* bytes_written = total_bytes; no step decreases bytes_written.
C7_BytesWritten ==
    /\ [](/\ 0 <= bytes_written
          /\ bytes_written <= src_size
          /\ pc = "loop" => (LoopCond(remaining) <=> bytes_written < src_size)
          /\ Has("copy_done") => bytes_written = src_size)
    /\ [][bytes_written' >= bytes_written]_vars

\* the loop is between two chunks of a source of more than two chunks
C7_Witness ==
    /\ pc = "loop"
    /\ bytes_written = 1024 * 1024
    /\ src_size = 2 * 1024 * 1024 + 37

\* round(delta / span * 100), halves rounded up
RoundPercent(delta, span) == (200 * delta + span) \div (2 * span)

\* the same quotient rounded toward zero
TruncPercent(delta, span) == (100 * delta) \div span

Clamp(x, lo, hi) == IF x < lo THEN lo ELSE IF x > hi THEN hi ELSE x

\* C8: right after the estimator has reported, the percentage on the bar is
\* 100 - clamp(round(delta / span * 100), 0, 100), with delta =
\* saturating_sub(current, before_copy) and span = the dirty count sampled
\* right after the copy loop minus before_copy; "round" is read as either
\* rounding to nearest or rounding toward zero.
C8_EstimatorPercent ==
    (epc = "recv" /\ dirty_end > dirty.before_copy) =>
        LET delta == SaturatingSub(dirty.current, dirty.before_copy)
            span == dirty_end - dirty.before_copy
        IN bar.percent \in {100 - Clamp(RoundPercent(delta, span), 0, 100),
                            100 - Clamp(TruncPercent(delta, span), 0, 100)}

\* C9: after_copy is saturating_sub(dirty count at copy end, before_copy), and
\* no subtraction on the dirty counters overflows.
C9_SaturatingArithmetic ==
    /\ Has("sampled") => dirty.after_copy = SaturatingSub(dirty_end, dirty.before_copy)
    /\ ~Has("overflow")

\* C10 as claimed: the copy loop completes before the flush begins, the flush
\* begins before the estimator is given the post-copy baseline, "finished" is
\* printed only after the flush returned without error, and a run that
\* aborted has not printed "finished".
C10_PhaseOrderClaimed ==
    /\ Precedes("copy_done", "flush_begin")
    /\ Has("flush_begin") => bytes_written = src_size
    /\ Precedes("flush_begin", "spawned")
    /\ Precedes("flush_ok", "finished")
    /\ Aborted => ~Has("finished")

InStdout(line) == \E i \in DOMAIN stdout : stdout[i] = line

\* C10 as amended: the copy loop completes before the post-copy baseline is
\* sampled, the baseline is sampled before the estimator is given it, the
\* estimator is given it before the flush begins, the flush returns without
\* error before "finished" is printed, and a run that aborted (a failing
\* open, read, write or flush among the causes) has not printed "finished".
C10_PhaseOrder ==
    /\ Precedes("copy_done", "sampled")
    /\ Has("copy_done") => bytes_written = src_size
    /\ Precedes("sampled", "spawned")
    /\ Precedes("sampled", "flush_begin")
    /\ Has("flush_begin") => (Has("spawned") <=> epc # "none")
    /\ Has("spawned") /\ Has("flush_begin") => Pos("spawned") < Pos("flush_begin")
    /\ Precedes("flush_begin", "flush_ok")
    /\ Precedes("flush_ok", "finished")
    /\ InStdout("finished") <=> Has("finished")
    /\ ~(Has("flush_err") /\ Has("finished"))
    /\ Aborted => ~InStdout("finished")

\* the estimator was spawned, then the flush began, returned, and "finished"
\* was printed
C10_Witness ==
    /\ events = <<"copy_done", "sampled", "spawned", "flush_begin", "flush_ok",
                  "sent", "finished">>
    /\ InStdout("finished")
    /\ bytes_written = src_size
    /\ src_size > 0

\* number of times e occurs in events
Count(e) == Cardinality({i \in DOMAIN events : events[i] = e})

\* C11: at most one estimator thread is spawned; once the branch on line 180
\* is taken, one was spawned if and only if saturating_sub(dirty count at copy
\* end, before_copy) is not 0; it is spawned only after the copy loop has
\* completed, and no estimator exists while the loop runs; and when that
\* difference is 0 no estimator exists and no percentage has been reported
\* for the flush phase.
C11_EstimatorSpawn ==
    LET after_copy_delta == SaturatingSub(dirty_end, dirty.before_copy)
        branched == Has("spawned") \/ InStdout("syncing... (2/2)")
    IN /\ Count("spawned") <= 1
       /\ Precedes("copy_done", "spawned")
       /\ ~Has("copy_done") => epc = "none"
       /\ epc # "none" <=> Has("spawned")
       /\ branched => (Has("spawned") <=> after_copy_delta # 0)
       /\ (Has("sampled") /\ after_copy_delta = 0) => (epc = "none" /\ ~reported)

\* C12: the completion signal is sent at most once, only by the main thread
\* at its send after sync_data has returned, and it has been sent exactly once
\* in every run that got past the send; the estimator has not returned unless
\* the signal was sent or the Sender dropped; a poll that finds the signal or
\* the channel closed does not go round the loop again; and once the flush
\* has returned the estimator eventually is no longer running.
C12_CompletionSignal ==
    /\ [](/\ sent <= 1
          /\ Count("sent") = sent
          /\ Precedes("flush_ok", "sent")
          /\ pc \in {"print", "return", "returned", "done"} => sent = 1
          /\ epc = "returned" => (sent = 1 \/ ~tx_alive))
    /\ [][/\ sent' # sent => (pc = "send" /\ Has("flush_ok") /\ sent' = sent + 1)
          /\ (epc = "recv" /\ epc' = "poll") => (chan = 0 /\ tx_alive)
          /\ (epc = "recv" /\ epc' = "returned") => (chan > 0 \/ ~tx_alive)]_vars
    /\ (Has("flush_ok") ~> epc \notin EstRunning)

\* the estimator found the signal and returned while the main thread had not
\* yet printed "finished"
C12_Witness ==
    /\ epc = "returned"
    /\ pc = "print"
    /\ sent = 1
    /\ chan = 0
    /\ tx_alive
    /\ reported

\* C13: tx.send never fails: no run ends in the panic of its unwrap, the
\* Receiver is alive whenever the main thread is at the send (held by main
\* when no estimator was spawned, by the estimator otherwise), the estimator
\* has not returned, and so not dropped the Receiver, unless the signal was
\* sent or the Sender dropped; and every run that has ended after its flush
\* returned without error has printed "finished" and ended with status 0.
C13_SendNeverFails ==
    /\ ~Has("send_err")
    /\ pc = "send" => rx_alive
    /\ (epc = "none" /\ pc \in {"branch", "sync", "syncing", "send", "print", "return"})
         => rx_alive
    /\ (epc # "none" /\ pc \in {"sync", "syncing", "send"}) => epc \in EstRunning
    /\ epc = "returned" => (Has("sent") \/ ~tx_alive)
    /\ (exit_code # <<>> /\ Has("flush_ok")) =>
         (InStdout("finished") /\ exit_code = <<0>>)

\* the signal was sent and "finished" printed while the estimator, still
\* holding the Receiver, had not yet looked at the channel
C13_Witness ==
    /\ Has("sent")
    /\ InStdout("finished")
    /\ epc = "recv"
    /\ rx_alive
    /\ chan = 1

----------------------------------------------------------------------------
(* The orchestrator: device discovery *)

Usb == <<"u", "s", "b">>
Descriptors == {"manufacturer", "product", "serial"}

Whitespace == {" ", "\n"}

\* str::trim
RECURSIVE TrimStart(_)
TrimStart(s) ==
    IF s # <<>> /\ Head(s) \in Whitespace THEN TrimStart(Tail(s)) ELSE s

RECURSIVE TrimEnd(_)
TrimEnd(s) ==
    IF s # <<>> /\ s[Len(s)] \in Whitespace THEN TrimEnd(SubSeq(s, 1, Len(s) - 1)) ELSE s

Trim(s) == TrimEnd(TrimStart(s))

\* fn is_usb_in_path: some component of the path starts with "usb"
\* (path.ancestors() yields the path and every prefix of it; file_name() is the
\* last component of each)
is_usb_in_path(path) ==
    \E k \in 1 .. Len(path) : StartsWith(path[k], Usb)

\* fn find_usb_info: the depth of the nearest ancestor directory that holds
\* all three descriptor files, or 0 for None; dirs[k] describes the directory
\* made of the first k components
find_usb_info(dirs) ==
    LET hits == {k \in 1 .. Len(dirs) : Descriptors \subseteq dirs[k].files}
    IN IF hits = {} THEN 0 ELSE CHOOSE k \in hits : \A j \in hits : j <= k

\* the UsbBlockDevice pushed for a candidate whose descriptor files are read
DeviceOf(entry, info) ==
    [path |-> Dev(entry.name),
     manufacturer |-> Trim(info.text["manufacturer"]),
     product |-> Trim(info.text["product"]),
     serial |-> Trim(info.text["serial"])]

\* one pass of the loop of get_all over a directory entry: "err" for a `?`
\* that returns the error, "skip" for a continue or a missing info directory,
\* "push" for a device
Visit(entry) ==
    IF entry.err THEN [kind |-> "err"]
    ELSE IF ~entry.has_device THEN [kind |-> "skip"]
    ELSE IF ~entry.canon_ok THEN [kind |-> "err"]
    ELSE IF ~is_usb_in_path(entry.device_path) THEN [kind |-> "skip"]
    ELSE LET k == find_usb_info(entry.dirs)
         IN IF k = 0 THEN [kind |-> "skip"]
            ELSE IF entry.dirs[k].unreadable # {} THEN [kind |-> "err"]
            ELSE [kind |-> "push", dev |-> DeviceOf(entry, entry.dirs[k])]

get_all_skipping(sb) ==
    IF ~sb.ok THEN [ok |-> FALSE, devices |-> <<>>]
    ELSE LET RECURSIVE Walk(_, _)
             Walk(i, result) ==
                 IF i > Len(sb.entries) THEN [ok |-> TRUE, devices |-> result]
                 ELSE LET v == Visit(sb.entries[i])
                      IN IF v.kind = "push" THEN Walk(i + 1, Append(result, v.dev))
                         ELSE Walk(i + 1, result)
         IN Walk(1, <<>>)

\* UsbBlockDevice::get_all
get_all(sb) ==
    IF ~sb.ok THEN [ok |-> FALSE, devices |-> <<>>]
    ELSE LET RECURSIVE Walk(_, _)
             Walk(i, result) ==
                 IF i > Len(sb.entries) THEN [ok |-> TRUE, devices |-> result]
                 ELSE LET v == Visit(sb.entries[i])
                      IN IF v.kind = "err" THEN [ok |-> FALSE, devices |-> <<>>]
                         ELSE IF v.kind = "skip" THEN Walk(i + 1, result)
                         ELSE Walk(i + 1, Append(result, v.dev))
         IN Walk(1, <<>>)

\* fn full_name: format!("{} {} {}", manufacturer, product, serial)
full_name(d) == d.manufacturer \o <<" ">> \o d.product \o <<" ">> \o d.serial

----------------------------------------------------------------------------
(* The orchestrator: inputs *)

Dir(files, unreadable, m, p, s) ==
    [files |-> files, unreadable |-> unreadable,
     text |-> [manufacturer |-> m, product |-> p, serial |-> s]]

NoFiles == Dir({}, {}, <<>>, <<>>, <<>>)

UsbPath == <<<<"p", "c", "i">>, <<"u", "s", "b", "4">>, <<"4", "-", "3">>, <<"h", "7">>>>
AtaPath == <<<<"p", "c", "i">>, <<"a", "t", "a">>, <<"u", "s">>, <<"h", "0">>>>

Entry(name, err, has_device, canon_ok, path, dirs) ==
    [name |-> name, err |-> err, has_device |-> has_device, canon_ok |-> canon_ok,
     device_path |-> path, dirs |-> dirs]

\* a USB disk "A D 1"; its descriptor files end in a newline
EntryUsbB ==
    Entry(<<"s", "d", "b">>, FALSE, TRUE, TRUE, UsbPath,
          <<NoFiles, NoFiles, Dir(Descriptors, {}, <<"A", "\n">>, <<"D", "\n">>, <<"1", "\n">>),
            NoFiles>>)

\* a USB disk "A D 2": the nearest directory with descriptor files lacks
\* serial, the one above it has all three
EntryUsbC ==
    Entry(<<"s", "d", "c">>, FALSE, TRUE, TRUE, UsbPath,
          <<NoFiles, Dir(Descriptors, {}, <<"A">>, <<" ", "D">>, <<"2", "\n">>),
            Dir({"manufacturer", "product"}, {}, <<"X">>, <<"Y">>, <<>>), NoFiles>>)

\* a disk that is not on USB, with descriptor files all the same
EntryAta ==
    Entry(<<"s", "d", "a">>, FALSE, TRUE, TRUE, AtaPath,
          <<NoFiles, NoFiles, Dir(Descriptors, {}, <<"A">>, <<"D">>, <<"3">>), NoFiles>>)

\* a USB disk with no directory holding all three descriptor files
EntryNoInfo ==
    Entry(<<"s", "d", "d">>, FALSE, TRUE, TRUE, UsbPath,
          <<NoFiles, NoFiles, Dir({"manufacturer", "serial"}, {}, <<"A">>, <<>>, <<"4">>),
            NoFiles>>)

\* a block device with no `device` link
EntryLoop ==
    Entry(<<"l", "o">>, FALSE, FALSE, TRUE, <<>>, <<>>)

\* a USB disk whose serial file exists and cannot be read
EntryUnreadable ==
    Entry(<<"s", "d", "e">>, FALSE, TRUE, TRUE, UsbPath,
          <<NoFiles, NoFiles, Dir(Descriptors, {"serial"}, <<"A">>, <<"D">>, <<>>), NoFiles>>)

\* a device link that cannot be canonicalized
EntryNoCanon ==
    Entry(<<"s", "d", "f">>, FALSE, TRUE, FALSE, <<>>, <<>>)

\* an entry the directory iterator fails on
EntryErr ==
    Entry(<<>>, TRUE, FALSE, FALSE, <<>>, <<>>)

Entries ==
    {EntryUsbB, EntryUsbC, EntryAta, EntryNoInfo, EntryLoop, EntryUnreadable,
     EntryNoCanon, EntryErr}

SeqsUpTo(S, n) == UNION {[1 .. k -> S] : k \in 0 .. n}

\* what fs::read_dir("/sys/block") can yield
SysBlocks ==
    {[ok |-> FALSE, entries |-> <<>>]}
        \cup {[ok |-> TRUE, entries |-> es] : es \in SeqsUpTo(Entries, MaxEntries)}

None == [some |-> FALSE, chars |-> <<>>]
Some(chars) == [some |-> TRUE, chars |-> chars]

\* --device-name: absent, the identity of sdb, a prefix of it, another case of it
DeviceNames ==
    {None, Some(<<"A", " ", "D", " ", "1">>), Some(<<"A", " ", "D">>),
     Some(<<"a", " ", "D", " ", "1">>)}

\* lines the operator can type (read_line keeps the newline; the empty line is
\* end of input)
InputLines ==
    {<<"0", "\n">>, <<"1", "\n">>, <<" ", "1", " ", "\n">>, <<"+", "1", "\n">>,
     <<"0", "1", "\n">>, <<"2", "\n">>, <<"1", "0", "\n">>, <<"x", "\n">>,
     <<"-", "1", "\n">>, <<"1", " ", "1", "\n">>, <<"+", "\n">>, <<"\n">>, <<>>}

\* exit statuses of the copier seen through sudo
CopierStatuses == {0, 1, 101}

----------------------------------------------------------------------------
(* The orchestrator: choose_device and main *)

Digits == <<"0", "1", "2", "3", "4", "5", "6", "7", "8", "9">>
IsDigit(c) == \E d \in DOMAIN Digits : Digits[d] = c
DigitValue(c) == (CHOOSE d \in DOMAIN Digits : Digits[d] = c) - 1

\* str::parse::<usize>: an optional "+", then one or more decimal digits
\* (no input of the model is long enough to overflow usize)
ParseUsize(s) ==
    LET body == IF s # <<>> /\ Head(s) = "+" THEN Tail(s) ELSE s
        RECURSIVE Value(_)
        Value(n) == IF n = 0 THEN 0 ELSE 10 * Value(n - 1) + DigitValue(body[n])
    IN IF body = <<>> \/ \E i \in DOMAIN body : ~IsDigit(body[i])
       THEN [ok |-> FALSE, value |-> 0]
       ELSE [ok |-> TRUE, value |-> Value(Len(body))]

FindByPrefix(devs, name) ==
    LET hits == {i \in DOMAIN devs : StartsWith(full_name(devs[i]), name)}
    IN IF hits = {} THEN 0 ELSE CHOOSE i \in hits : \A j \in hits : i <= j

\* devices.iter().find(|device| device.full_name() == *device_name): the
\* index of the first such device, or 0 when there is none
Find(devs, name) ==
    LET hits == {i \in DOMAIN devs : full_name(devs[i]) = name}
    IN IF hits = {} THEN 0 ELSE CHOOSE i \in hits : \A j \in hits : i <= j

\* "{index}: [{path}] {name}" for every device
Listing(devs) == [i \in DOMAIN devs |-> "index: [path] name"]

OrchInit ==
    /\ opc = "check_input"
    /\ input_exists \in BOOLEAN
    /\ sys_block \in SysBlocks
    /\ opt_device_name \in DeviceNames
    /\ discovery = "none"
    /\ devices = <<>>
    /\ input = None
    /\ device = [some |-> FALSE]
    /\ ostdout = <<>>
    /\ invocations = <<>>
    /\ status = <<>>
    /\ oexit = <<>>

oworld == <<input_exists, sys_block, opt_device_name, cvars, kvars>>

\* if !opt.input.exists() { eprintln!("file not found"); process::exit(1) }
InputMissing ==
    /\ opc = "check_input"
    /\ ~input_exists
    /\ opc' = "exited"
    /\ oexit' = <<1>>
    /\ UNCHANGED <<oworld, discovery, devices, input, device, ostdout, invocations, status>>

InputFound ==
    /\ opc = "check_input"
    /\ input_exists
    /\ opc' = "choose_device"
    /\ UNCHANGED <<oworld, discovery, devices, input, device, ostdout, invocations,
                   status, oexit>>

\* UsbBlockDevice::get_all().unwrap() panics
DiscoveryFails ==
    /\ opc = "choose_device"
    /\ ~get_all(sys_block).ok
    /\ discovery' = "err"
    /\ opc' = "panicked"
    /\ oexit' = <<101>>
    /\ UNCHANGED <<oworld, devices, input, device, ostdout, invocations, status>>

\* if devices.is_empty() { println!("no devices found"); process::exit(1) }
NoDevices ==
    /\ opc = "choose_device"
    /\ get_all(sys_block).ok
    /\ get_all(sys_block).devices = <<>>
    /\ discovery' = "ok"
    /\ devices' = <<>>
    /\ ostdout' = Append(ostdout, "no devices found")
    /\ opc' = "exited"
    /\ oexit' = <<1>>
    /\ UNCHANGED <<oworld, input, device, invocations, status>>

\* a device name was given and a device has it: "writing to ..."
NamedDevice ==
    /\ opc = "choose_device"
    /\ LET r == get_all(sys_block)
       IN /\ r.ok
          /\ r.devices # <<>>
          /\ opt_device_name.some
          /\ Find(r.devices, opt_device_name.chars) # 0
          /\ discovery' = "ok"
          /\ devices' = r.devices
          /\ device' = [some |-> TRUE, dev |-> r.devices[Find(r.devices, opt_device_name.chars)]]
    /\ ostdout' = Append(ostdout, "writing to")
    /\ opc' = "invoke"
    /\ UNCHANGED <<oworld, input, invocations, status, oexit>>

\* a device name was given and no device has it: "invalid device", exit(1)
InvalidDevice ==
    /\ opc = "choose_device"
    /\ LET r == get_all(sys_block)
       IN /\ r.ok
          /\ r.devices # <<>>
          /\ opt_device_name.some
          /\ Find(r.devices, opt_device_name.chars) = 0
          /\ discovery' = "ok"
          /\ devices' = r.devices
    /\ ostdout' = Append(ostdout, "invalid device")
    /\ opc' = "exited"
    /\ oexit' = <<1>>
    /\ UNCHANGED <<oworld, input, device, invocations, status>>

\* if index >= devices.len()
InvalidIndex(index, count) == index >= count

\* no device name was given: the devices are listed, one line is read and
\* parsed, and the line decides
Interactive ==
    /\ opc = "choose_device"
    /\ LET r == get_all(sys_block)
       IN /\ r.ok
          /\ r.devices # <<>>
          /\ ~opt_device_name.some
          /\ discovery' = "ok"
          /\ devices' = r.devices
          /\ \E line \in InputLines :
               LET parsed == ParseUsize(Trim(line))
                   shown == ostdout \o Listing(r.devices) \o <<"select device: ">>
               IN /\ input' = Some(line)
                  /\ IF ~parsed.ok
                     THEN /\ ostdout' = Append(shown, "invalid input")
                          /\ opc' = "exited"
                          /\ oexit' = <<1>>
                          /\ UNCHANGED device
                     ELSE IF InvalidIndex(parsed.value, Len(r.devices))
                     THEN /\ ostdout' = Append(shown, "invalid index")
                          /\ opc' = "exited"
                          /\ oexit' = <<1>>
                          /\ UNCHANGED device
                     ELSE /\ ostdout' = shown
                          /\ device' = [some |-> TRUE,
                                        dev |-> r.devices[parsed.value + 1]]
                          /\ opc' = "invoke"
                          /\ UNCHANGED oexit
    /\ UNCHANGED <<oworld, invocations, status>>

\* io::stdin().read_line(&mut input).unwrap() panics
ReadLineFails ==
    /\ opc = "choose_device"
    /\ LET r == get_all(sys_block)
       IN /\ r.ok
          /\ r.devices # <<>>
          /\ ~opt_device_name.some
          /\ discovery' = "ok"
          /\ devices' = r.devices
          /\ ostdout' = ostdout \o Listing(r.devices) \o <<"select device: ">>
    /\ opc' = "panicked"
    /\ oexit' = <<101>>
    /\ UNCHANGED <<oworld, input, device, invocations, status>>

\* fn choose_device, called on line 171
choose_device ==
    \/ DiscoveryFails
    \/ NoDevices
    \/ NamedDevice
    \/ InvalidDevice
    \/ Interactive
    \/ ReadLineFails

\* lines 173-192: sudo wd_copier <input> <device.path> runs and ends with a
\* status; "copy failed" and exit(1) unless it is success
RunCopier ==
    /\ opc = "invoke"
    /\ \E st \in CopierStatuses :
         /\ status' = <<st>>
         /\ ostdout' = IF st = 0 THEN Append(ostdout, "sudo wd_copier")
                       ELSE ostdout \o <<"sudo wd_copier", "copy failed">>
         /\ oexit' = IF st = 0 THEN <<0>> ELSE <<1>>
    /\ invocations' = Append(invocations, device.dev.path)
    /\ opc' = "exited"
    /\ UNCHANGED <<oworld, discovery, devices, input, device>>

\* .status().expect("failed to run command") panics: sudo could not be started
RunCopierFails ==
    /\ opc = "invoke"
    /\ ostdout' = Append(ostdout, "sudo wd_copier")
    /\ invocations' = Append(invocations, device.dev.path)
    /\ opc' = "panicked"
    /\ oexit' = <<101>>
    /\ UNCHANGED <<oworld, discovery, devices, input, device, status>>

InitOrch ==
    /\ OrchInit
    /\ CopierIdle
    /\ CalcIdle

NextOrch ==
    \/ InputMissing
    \/ InputFound
    \/ choose_device
    \/ RunCopier
    \/ RunCopierFails

SpecOrch == InitOrch /\ [][NextOrch]_vars

----------------------------------------------------------------------------
(* Properties of the orchestrator, checked under SpecOrch *)

OInStdout(line) == \E i \in DOMAIN ostdout : ostdout[i] = line

\* the device in `device` is what DeviceSelector may return: a device of the
\* discovered sequence that has the given name or, with no name given, the
\* device at the index the operator's line parses to
Selected ==
    /\ input_exists
    /\ discovery = "ok"
    /\ device.some
    /\ \E i \in DOMAIN devices : devices[i] = device.dev
    /\ opt_device_name.some =>
         /\ full_name(device.dev) = opt_device_name.chars
         /\ ~input.some
    /\ ~opt_device_name.some =>
         /\ input.some
         /\ LET parsed == ParseUsize(Trim(input.chars))
            IN /\ parsed.ok
               /\ parsed.value < Len(devices)
               /\ device.dev = devices[parsed.value + 1]

\* one of the five cases in which no device can be selected
NothingToSelect ==
    \/ ~input_exists
    \/ discovery = "ok" /\ devices = <<>>
    \/ /\ discovery = "ok"
       /\ opt_device_name.some
       /\ \A i \in DOMAIN devices : full_name(devices[i]) # opt_device_name.chars
    \/ /\ input.some
       /\ ~ParseUsize(Trim(input.chars)).ok
    \/ /\ input.some
       /\ ParseUsize(Trim(input.chars)).ok
       /\ ParseUsize(Trim(input.chars)).value >= Len(devices)

\* C3: the copier is invoked at most once, and only for the path of a device
\* selected as DeviceSelector specifies, after the input file was found; when
\* the input file is missing, no device was discovered, the given name matches
\* no device (the operator is then not prompted), the operator's line does not
\* parse or its index is not below the device count, the orchestrator has
\* exited with status 1 and has not invoked the copier; and once the copier
\* has returned a status the orchestrator has exited with 1 if the status is
\* not 0 and with 0 if it is.
C3_Orchestrator ==
    /\ Len(invocations) <= 1
    /\ (opc = "invoke" \/ invocations # <<>>) => Selected
    /\ invocations # <<>> => invocations[1] = device.dev.path
    /\ (opc # "check_input" /\ NothingToSelect) =>
         /\ oexit = <<1>>
         /\ invocations = <<>>
         /\ opt_device_name.some => ~OInStdout("select device: ")
    /\ status # <<>> =>
         /\ Len(invocations) = 1
         /\ oexit = (IF status[1] = 0 THEN <<0>> ELSE <<1>>)

\* two devices were found, the operator typed " 1 ", the copier was run on the
\* second device and failed, and the orchestrator exited with status 1
C3_Witness ==
    /\ Len(devices) = 2
    /\ input = Some(<<" ", "1", " ", "\n">>)
    /\ device.some
    /\ invocations = <<devices[2].path>>
    /\ status = <<1>>
    /\ oexit = <<1>>

\* C4: when /sys/block can be listed and every device link resolves, discovery
\* succeeds, and it returns the devices of the candidates that are on USB and
\* have a descriptor directory whose three files can be read, every other
\* candidate being skipped.
C4_SkipsBadCandidates ==
    (/\ discovery # "none"
     /\ sys_block.ok
     /\ \A i \in DOMAIN sys_block.entries :
          ~sys_block.entries[i].err /\ sys_block.entries[i].canon_ok) =>
        /\ discovery = "ok"
        /\ devices = get_all_skipping(sys_block).devices

----------------------------------------------------------------------------
(* Properties of the percentage functions, checked under SpecCalc *)

\* C5: for max > 0, calc_percent(current, max) is in 0 .. 100, is 100 when
\* current = max and when current > max, and is not above calc_percent(other,
\* max) when current <= other; and calc_percent(current, 0) = 0.
C5_CalcPercent ==
    kout.fn = "calc_percent" =>
        /\ kin.max > 0 =>
             /\ kout.r \in 0 .. 100
             /\ kin.current >= kin.max => kout.r = 100
             /\ kin.current <= kin.other => kout.r <= kout.r_other
        /\ kin.max = 0 => kout.r = 0

\* calc_percent was applied to a current above max and to one below it
C5_Witness ==
    /\ kout.fn = "calc_percent"
    /\ kin.max = MaxSpan
    /\ kin.current = 1
    /\ kin.other > kin.max
    /\ kout.r = 100 \div MaxSpan
    /\ kout.r_other = 100

\* C6: for a DirtyInfo with after_copy = before_copy + d, d > 0,
\* calc_sync_percent is in 0 .. 100; it is 0 when current = after_copy and for
\* every current above it, 100 when current = before_copy and for every
\* current below it, 100 - calc_percent(current - before_copy, d) in between;
\* it is not below the value for a reading `other` >= current; and before =
\* 100, d = 20, current = 105 gives 75.
C6_CalcSyncPercent ==
    (kout.fn = "calc_sync_percent" /\ kin.dirty.after_copy > kin.dirty.before_copy) =>
        LET before == kin.dirty.before_copy
            after == kin.dirty.after_copy
            current == kin.dirty.current
        IN /\ kout.r \in 0 .. 100
           /\ current >= after => kout.r = 0
           /\ current <= before => kout.r = 100
           /\ (before <= current /\ current <= after) =>
                kout.r = 100 - calc_percent(current - before, after - before)
           /\ current <= kin.other => kout.r >= kout.r_other
           /\ (before = 100 /\ after = 120 /\ current = 105) => kout.r = 75

\* calc_sync_percent was applied to a reading inside the interval and to one
\* below before_copy
C6_Witness ==
    /\ kout.fn = "calc_sync_percent"
    /\ kin.dirty.before_copy = 5 * MaxSpan
    /\ kin.dirty.after_copy = 6 * MaxSpan
    /\ kin.dirty.current = kin.dirty.before_copy + 1
    /\ kin.other = 0
    /\ kout.r = 100 - 100 \div MaxSpan
    /\ kout.r_other = 100

====
